---- MODULE Spec2Model ----
(***************************************************************************)
(* Model of src/main_project01.py: wind_turbine_power, the piecewise power *)
(* curve of a wind turbine, and the six example calls of the __main__      *)
(* block.                                                                  *)
(*                                                                         *)
(* Numbers are exact rationals <<n, d>> (d > 0, lowest terms), so the      *)
(* arithmetic of the ramp-up branch is the arithmetic of the reals the     *)
(* specification talks about; the rounding, overflow, infinities and NaN   *)
(* of Python's binary floating point are outside this model.  A division   *)
(* by zero, which Python raises as ZeroDivisionError for int and float     *)
(* alike, is modelled: it yields the marker Raised and ends the call in    *)
(* the outcome "ZeroDivisionError".                                        *)
(***************************************************************************)
EXTENDS Integers, Sequences, FiniteSets, TLC

VARIABLES wind_speed, rated_power, cut_in_wind_speed, rated_wind_speed,
          cut_out_wind_speed, interpolation_option, pc, outcome, result

vars == <<wind_speed, rated_power, cut_in_wind_speed, rated_wind_speed,
          cut_out_wind_speed, interpolation_option, pc, outcome, result>>

args == <<wind_speed, rated_power, cut_in_wind_speed, rated_wind_speed,
          cut_out_wind_speed, interpolation_option>>

(***************************************************************************)
(* Bounds of the model.                                                    *)
(***************************************************************************)
\* thresholds (cut-in, rated, cut-out) range over the integers -1 .. MaxThreshold
MaxThreshold == 3
\* wind speeds range over the multiples of 1/SpeedDen in -2 .. MaxThreshold + 1
SpeedDen == 2
\* rated power ranges over the integers -1 .. MaxPower
MaxPower == 2
\* number of refinement steps towards the rated speed examined for the limit
MaxRefine == 3

(***************************************************************************)
(* Default arguments of wind_turbine_power.                                *)
(***************************************************************************)
DefaultRatedPower == 15
DefaultCutIn == 3
DefaultRated == 11
DefaultCutOut == 25

(***************************************************************************)
(* Exact rational arithmetic.                                              *)
(***************************************************************************)
Abs(n) == IF n < 0 THEN -n ELSE n

RECURSIVE GCD(_, _)
GCD(a, b) == IF b = 0 THEN a ELSE GCD(b, a % b)

\* the rational n/d (d # 0) in lowest terms with a positive denominator
Norm(n, d) ==
    LET g == GCD(Abs(n), Abs(d))
        s == IF d < 0 THEN -1 ELSE 1
    IN  <<(s * n) \div g, (s * d) \div g>>

R(n) == <<n, 1>>
Zero == <<0, 1>>

\* the value of an expression whose evaluation raised ZeroDivisionError
Raised == <<0, 0>>
IsRaised(a) == a[2] = 0

Sub(a, b) == Norm(a[1] * b[2] - b[1] * a[2], a[2] * b[2])
Mul(a, b) == Norm(a[1] * b[1], a[2] * b[2])
Pow3(a) == <<a[1] * a[1] * a[1], a[2] * a[2] * a[2]>>
Div(a, b) == IF b[1] = 0 THEN Raised ELSE Norm(a[1] * b[2], a[2] * b[1])

Lt(a, b) == a[1] * b[2] < b[1] * a[2]
Le(a, b) == a[1] * b[2] <= b[1] * a[2]
Ge(a, b) == Le(b, a)

(***************************************************************************)
(* wind_turbine_power, lines 3-61.                                         *)
(***************************************************************************)
\* line 43: interpolation_option in ["linear", "cubic"]
ValidOption(opt) == opt \in {"linear", "cubic"}

\* variants of line 47 with a plausible slip, used to test the claims' formulas
InZeroRegion_NoCutIn(v, ci, co) == Ge(v, co)
InZeroRegion_ExclusiveCutOut(v, ci, co) == Lt(v, ci) \/ Lt(co, v)

\* line 47: wind_speed < cut_in_wind_speed or wind_speed >= cut_out_wind_speed
InZeroRegion(v, ci, co) == Lt(v, ci) \/ Ge(v, co)

\* variant of line 49 without the upper bound of the ramp-up region
InRampRegion_NoUpperBound(v, ci, r) == Le(ci, v)

\* line 49: cut_in_wind_speed <= wind_speed < rated_wind_speed
InRampRegion(v, ci, r) == Le(ci, v) /\ Lt(v, r)

\* variants of line 52: a denominator or numerator without the cut-in offset,
\* and floor division (//) in place of true division (/)
LinearFraction_UnshiftedDenominator(v, ci, r) == Div(Sub(v, ci), r)
LinearFraction_UnshiftedNumerator(v, ci, r) == Div(v, Sub(r, ci))
LinearFraction_FloorDivision(v, ci, r) ==
    LET q == Div(Sub(v, ci), Sub(r, ci))
    IN  IF IsRaised(q) THEN Raised ELSE R(q[1] \div q[2])

\* line 52: (wind_speed - cut_in_wind_speed) / (rated_wind_speed - cut_in_wind_speed)
LinearFraction(v, ci, r) == Div(Sub(v, ci), Sub(r, ci))

\* variants of line 58: the formula v^3 / v_rated^1 that the comment of
\* lines 54-57 rejects, and a squared wind speed
CubicFraction_RatedToFirstPower(v, r) == Div(Pow3(v), r)
CubicFraction_SquaredSpeed(v, r) == Div(Mul(v, v), Pow3(r))

\* line 58: (wind_speed**3) / (rated_wind_speed**3)
CubicFraction(v, r) == Div(Pow3(v), Pow3(r))

\* lines 51-58: g_v by the selected interpolation method
FractionalPower(v, ci, r, opt) ==
    IF opt = "linear" THEN LinearFraction(v, ci, r) ELSE CubicFraction(v, r)

\* line 59: return g_v * rated_power (not reached when g_v raised)
RampPower(g_v, P) ==
    IF IsRaised(g_v)
    THEN [branch |-> "ramp", outcome |-> "ZeroDivisionError", result |-> Raised]
    ELSE [branch |-> "ramp", outcome |-> "return", result |-> Mul(g_v, P)]

\* variant of lines 43-61 that validates the option only where it is used
wind_turbine_power_LateValidation(v, P, ci, r, co, opt) ==
    IF InZeroRegion(v, ci, co)
    THEN [branch |-> "zero", outcome |-> "return", result |-> Zero]
    ELSE IF ~ValidOption(opt)
    THEN [branch |-> "invalid", outcome |-> "ValueError", result |-> Raised]
    ELSE IF InRampRegion(v, ci, r)
    THEN RampPower(FractionalPower(v, ci, r, opt), P)
    ELSE [branch |-> "rated", outcome |-> "return", result |-> P]

\* lines 43-61: the whole call; branch names the exit taken
wind_turbine_power(v, P, ci, r, co, opt) ==
    IF ~ValidOption(opt)
    THEN [branch |-> "invalid", outcome |-> "ValueError", result |-> Raised]
    ELSE IF InZeroRegion(v, ci, co)
    THEN [branch |-> "zero", outcome |-> "return", result |-> Zero]
    ELSE IF InRampRegion(v, ci, r)
    THEN RampPower(FractionalPower(v, ci, r, opt), P)
    ELSE [branch |-> "rated", outcome |-> "return", result |-> P]

(***************************************************************************)
(* The calls examined: every combination of grid values, and the six       *)
(* example calls of the __main__ block (lines 64-100).                     *)
(***************************************************************************)
Thresholds == {R(n) : n \in -1 .. MaxThreshold}
Speeds == {Norm(n, SpeedDen) : n \in (-2 * SpeedDen) .. ((MaxThreshold + 1) * SpeedDen)}
Powers == {R(n) : n \in -1 .. MaxPower}
Options == {"linear", "cubic", "invalid", "Cubic"}

ExampleCall(v, opt) ==
    <<R(v), R(DefaultRatedPower), R(DefaultCutIn), R(DefaultRated), R(DefaultCutOut), opt>>

Examples ==
    { ExampleCall(7, "linear"), ExampleCall(7, "cubic"), ExampleCall(2, "linear"),
      ExampleCall(11, "linear"), ExampleCall(26, "linear"), ExampleCall(5, "invalid") }

GridCalls == Speeds \X Powers \X Thresholds \X Thresholds \X Thresholds \X Options

Init ==
    /\ \E c \in GridCalls \cup Examples :
          /\ wind_speed = c[1]
          /\ rated_power = c[2]
          /\ cut_in_wind_speed = c[3]
          /\ rated_wind_speed = c[4]
          /\ cut_out_wind_speed = c[5]
          /\ interpolation_option = c[6]
    /\ pc = "call"
    /\ outcome = "none"
    /\ result = Raised

Call == wind_turbine_power(wind_speed, rated_power, cut_in_wind_speed,
                           rated_wind_speed, cut_out_wind_speed, interpolation_option)

\* the call ends: its outcome and result are those of the branch taken
Finish ==
    /\ pc' = "done"
    /\ outcome' = Call.outcome
    /\ result' = Call.result
    /\ UNCHANGED args

\* lines 43-44: raise ValueError
RaiseValueError ==
    /\ pc = "call"
    /\ Call.branch = "invalid"
    /\ Finish

\* lines 47-48: return 0.0
ReturnZero ==
    /\ pc = "call"
    /\ Call.branch = "zero"
    /\ Finish

\* lines 49-59: return g_v * rated_power, or the division raises
RampUp ==
    /\ pc = "call"
    /\ Call.branch = "ramp"
    /\ Finish

\* lines 60-61: return rated_power
ReturnRated ==
    /\ pc = "call"
    /\ Call.branch = "rated"
    /\ Finish

Next == RaiseValueError \/ ReturnZero \/ RampUp \/ ReturnRated

Spec == Init /\ [][Next]_vars

Done == pc = "done"
Returned == pc = "done" /\ outcome = "return"
Valid == ValidOption(interpolation_option)

(***************************************************************************)
(* C1: a call with an interpolation_option other than "linear" or "cubic"  *)
(* ends in ValueError and returns no number, for every wind speed and      *)
(* every choice of the numeric arguments; the option is checked before any *)
(* region logic (also where a valid call would return 0.0 or would divide  *)
(* by zero).                                                               *)
(***************************************************************************)
InvalidOptionRaises ==
    (Done /\ ~Valid) => (outcome = "ValueError" /\ IsRaised(result))

\* an invalid option with a wind speed below cut-in, where a valid call returns 0.0
InvalidOptionBelowCutIn ==
    /\ Done /\ interpolation_option = "invalid"
    /\ Lt(wind_speed, cut_in_wind_speed)
    /\ outcome = "ValueError"

(***************************************************************************)
(* C2 as stated: for every wind_speed in [rated_wind_speed,                *)
(* cut_out_wind_speed) and a valid option the call returns rated_power.    *)
(***************************************************************************)
PlateauWhateverCutIn ==
    (Done /\ Valid /\ Le(rated_wind_speed, wind_speed)
          /\ Lt(wind_speed, cut_out_wind_speed))
        => (outcome = "return" /\ result = rated_power)

(***************************************************************************)
(* C2 amended: for every wind_speed in [rated_wind_speed,                  *)
(* cut_out_wind_speed) that is not below cut_in_wind_speed, and a valid    *)
(* option, the call returns exactly rated_power, wind_speed ==             *)
(* rated_wind_speed included.                                              *)
(***************************************************************************)
PlateauAtOrAboveCutIn ==
    (Done /\ Valid /\ Le(rated_wind_speed, wind_speed)
          /\ Lt(wind_speed, cut_out_wind_speed)
          /\ Le(cut_in_wind_speed, wind_speed))
        => (outcome = "return" /\ result = rated_power)

\* the plateau boundary itself, in cubic mode, with a nonzero rated power
PlateauAtRatedSpeed ==
    /\ Done /\ interpolation_option = "cubic"
    /\ wind_speed = rated_wind_speed
    /\ Lt(cut_in_wind_speed, wind_speed) /\ Lt(wind_speed, cut_out_wind_speed)
    /\ rated_power = R(2)
    /\ outcome = "return" /\ result = R(2)

(***************************************************************************)
(* C3: with a valid option the call returns a number for every combination *)
(* of numeric arguments; invalid options are the only failure.             *)
(***************************************************************************)
OnlyFailureIsInvalidOption ==
    (Done /\ Valid) => (outcome = "return" /\ ~IsRaised(result))

(***************************************************************************)
(* C4: for every wind_speed < cut_in_wind_speed, a valid option and any    *)
(* values of the other arguments, the call returns 0.0.                    *)
(***************************************************************************)
BelowCutInIsZero ==
    (Done /\ Valid /\ Lt(wind_speed, cut_in_wind_speed))
        => (outcome = "return" /\ result = Zero)

\* below cut-in while inside [rated, cut-out), with a nonzero rated power
BelowCutInOnPlateau ==
    /\ Done /\ Valid
    /\ Lt(wind_speed, cut_in_wind_speed)
    /\ Le(rated_wind_speed, wind_speed) /\ Lt(wind_speed, cut_out_wind_speed)
    /\ rated_power # Zero
    /\ outcome = "return" /\ result = Zero

(***************************************************************************)
(* C5: for every wind_speed >= cut_out_wind_speed (the boundary included), *)
(* a valid option and any values of the other arguments, the call returns  *)
(* 0.0, also where the ramp-up or plateau condition holds as well.         *)
(***************************************************************************)
AtOrAboveCutOutIsZero ==
    (Done /\ Valid /\ Ge(wind_speed, cut_out_wind_speed))
        => (outcome = "return" /\ result = Zero)

\* exactly at cut-out while the ramp-up condition holds too
AtCutOutInsideRamp ==
    /\ Done /\ Valid
    /\ wind_speed = cut_out_wind_speed
    /\ Lt(cut_in_wind_speed, wind_speed) /\ Lt(wind_speed, rated_wind_speed)
    /\ rated_power # Zero
    /\ outcome = "return" /\ result = Zero

\* the ramp-up case of C6 and C7: cut_in <= wind_speed < rated, below cut-out
InRampCase ==
    /\ Le(cut_in_wind_speed, wind_speed) /\ Lt(wind_speed, rated_wind_speed)
    /\ Lt(wind_speed, cut_out_wind_speed)

\* P * a / b for rationals P, a, b (b # 0), computed in one step
Scaled(P, a, b) == Norm(P[1] * a[1] * b[2], P[2] * a[2] * b[1])

LinearRampFormula ==
    (Done /\ interpolation_option = "linear" /\ InRampCase)
        => /\ outcome = "return"
           /\ result = Scaled(rated_power, Sub(wind_speed, cut_in_wind_speed),
                              Sub(rated_wind_speed, cut_in_wind_speed))
           /\ wind_speed = cut_in_wind_speed => result = Zero
           /\ args = ExampleCall(7, "linear") => result = <<15, 2>>

\* example 1 of the __main__ block has returned 7.5
LinearExampleReturned ==
    /\ Done /\ args = ExampleCall(7, "linear")
    /\ outcome = "return" /\ result = <<15, 2>>

\* the call with the state's arguments, at another wind speed v
PowerAt(v) == wind_turbine_power(v, rated_power, cut_in_wind_speed, rated_wind_speed,
                                 cut_out_wind_speed, interpolation_option)

\* the wind speed rated - (rated - cut_in) / (4 k), which approaches rated from
\* below as k grows and stays in [cut_in, rated) when cut_in < rated
RefinedSpeed(k) ==
    Sub(rated_wind_speed,
        Div(Sub(rated_wind_speed, cut_in_wind_speed), R(4 * k)))

\* rated_power minus the result at wind speed v
Gap(v) == Sub(rated_power, PowerAt(v).result)

CubicLimitCase ==
    /\ interpolation_option = "cubic"
    /\ Lt(Zero, rated_power)
    /\ Le(Zero, cut_in_wind_speed)
    /\ Lt(cut_in_wind_speed, rated_wind_speed)
    /\ Lt(rated_wind_speed, cut_out_wind_speed)

====
